---- MODULE Spec2Model ----
(***************************************************************************)
(* Budget planner of budget-alerts (lib/org/budget-planner.ts, the current *)
(* revision at src/bin/init-budget-config.ts:485-833): buildOuTree,        *)
(* validateBudgetConfig, computeEffectiveBudgets, maximalUniformSubtree-   *)
(* Roots, selectOuBudgetAttachments and computeOuBudgetAttachments.        *)
(*                                                                         *)
(* Optional values (T | null | undefined) are sequences of length 0 or 1:  *)
(* <<>> is the absent value, <<v>> the present one.                        *)
(***************************************************************************)
EXTENDS Integers, Sequences, FiniteSets, TLC

None == <<>>
Some(v) == <<v>>
IsSome(o) == Len(o) > 0
\* a ?? d
OrElse(o, d) == IF Len(o) > 0 THEN o[1] ELSE d

\* Map.get(k) on a map held as a function: absent keys give undefined
MapGet(m, k) == IF k \in DOMAIN m THEN Some(m[k]) ELSE None
\* Map.set(k, v)
MapSet(m, k, v) == [x \in (DOMAIN m) \cup {k} |-> IF x = k THEN v ELSE m[x]]
EmptyMap == [x \in {} |-> None]

Range(s) == {s[i] : i \in DOMAIN s}

(***************************************************************************)
(* Data                                                                    *)
(***************************************************************************)
DISABLED_CURRENCY == "NONE"

\* interface OuNode { id: string; parentId: string | null }
OuNode(id, parentId) == [id |-> id, parentId |-> parentId]

\* interface EffectiveBudget { amount?: number; currency: string; thresholds?: Thresholds }
EffectiveBudget(amount, currency, thresholds) ==
    [amount |-> amount, currency |-> currency, thresholds |-> thresholds]

\* interface OuBudgetConfigEntry { amount: number | null; currency?; thresholds? }
\* defined = FALSE is a key whose value is undefined
OuBudgetConfigEntry(amount, currency, thresholds) ==
    [defined |-> TRUE, amount |-> amount, currency |-> currency, thresholds |-> thresholds]
UndefinedEntry ==
    [defined |-> FALSE, amount |-> None, currency |-> None, thresholds |-> None]
\* { amount: null }
NullEntry == OuBudgetConfigEntry(None, None, None)

\* interface OuBudgetAttachment { ouId; amount: number; currency; thresholds? }
OuBudgetAttachment(ouId, amount, currency, thresholds) ==
    [ouId |-> ouId, amount |-> amount, currency |-> currency, thresholds |-> thresholds]

\* interface OuTree { byId: Map; children: Map; roots: string[] }
\* keys is the insertion order of byId
EmptyTree == [keys |-> <<>>, byId |-> EmptyMap, children |-> EmptyMap, roots |-> <<>>]

(***************************************************************************)
(* buildOuTree                                                             *)
(***************************************************************************)
RECURSIVE buildLoop(_, _, _)
\* a duplicate id keeps its first occurrence in byId
buildLoopFirstWins(ous, i, t) ==
    IF i > Len(ous) THEN t
    ELSE LET ou == ous[i] IN
      IF ou.id = "" THEN buildLoop(ous, i + 1, t)
      ELSE
        LET keys1 == IF ou.id \in DOMAIN t.byId THEN t.keys ELSE Append(t.keys, ou.id)
            byId1 == IF ou.id \in DOMAIN t.byId THEN t.byId ELSE MapSet(t.byId, ou.id, ou)
        IN IF ou.parentId = None
           THEN buildLoop(ous, i + 1,
                    [keys |-> keys1, byId |-> byId1, children |-> t.children,
                     roots |-> Append(t.roots, ou.id)])
           ELSE LET p == ou.parentId[1]
                    arr == OrElse(MapGet(t.children, p), <<>>)
                IN buildLoop(ous, i + 1,
                    [keys |-> keys1, byId |-> byId1,
                     children |-> MapSet(t.children, p, Append(arr, ou.id)),
                     roots |-> t.roots])

buildLoop(ous, i, t) ==
    IF i > Len(ous) THEN t
    ELSE LET ou == ous[i] IN
      IF ou.id = "" THEN buildLoop(ous, i + 1, t)
      ELSE
        LET keys1 == IF ou.id \in DOMAIN t.byId THEN t.keys ELSE Append(t.keys, ou.id)
            byId1 == MapSet(t.byId, ou.id, ou)
        IN IF ou.parentId = None
           THEN buildLoop(ous, i + 1,
                    [keys |-> keys1, byId |-> byId1, children |-> t.children,
                     roots |-> Append(t.roots, ou.id)])
           ELSE LET p == ou.parentId[1]
                    arr == OrElse(MapGet(t.children, p), <<>>)
                IN buildLoop(ous, i + 1,
                    [keys |-> keys1, byId |-> byId1,
                     children |-> MapSet(t.children, p, Append(arr, ou.id)),
                     roots |-> t.roots])

\* fails only when there is no root at all
buildOuTreeSomeRoot(ous) ==
    LET t == buildLoop(ous, 1, EmptyTree)
    IN IF Len(t.roots) = 0
       THEN [err |-> "structural", tree |-> EmptyTree]
       ELSE [err |-> "", tree |-> t]

buildOuTree(ous) ==
    LET t == buildLoop(ous, 1, EmptyTree)
    IN IF Len(t.roots) # 1
       THEN [err |-> "structural", tree |-> EmptyTree]
       ELSE [err |-> "", tree |-> t]

(***************************************************************************)
(* validateBudgetConfig: the error of the first offending key, "" if none  *)
(***************************************************************************)
RECURSIVE validateLoop(_, _, _)
\* without the check of the key against the known OUs
validateLoopAnyKey(ou, knownOus, i) ==
    IF i > Len(ou.keys) THEN ""
    ELSE LET ouId == ou.keys[i]
             entry == ou.entry[ouId]
         IN IF ~entry.defined THEN "undefined-entry"
            ELSE IF IsSome(entry.amount) /\ entry.amount[1] < 0 THEN "invalid-amount"
            ELSE validateLoop(ou, knownOus, i + 1)

validateLoop(ou, knownOus, i) ==
    IF i > Len(ou.keys) THEN ""
    ELSE LET ouId == ou.keys[i]
             entry == ou.entry[ouId]
         IN IF ~entry.defined THEN "undefined-entry"
            ELSE IF ouId \notin Range(knownOus) THEN "unknown-ou"
            ELSE IF IsSome(entry.amount) /\ entry.amount[1] < 0 THEN "invalid-amount"
            ELSE validateLoop(ou, knownOus, i + 1)

validateBudgetConfig(config, knownOus) ==
    IF IsSome(config.organizationalUnits)
    THEN validateLoop(config.organizationalUnits[1], knownOus, 1)
    ELSE ""

(***************************************************************************)
(* computeEffectiveBudgets                                                 *)
(***************************************************************************)
\* an OU without a key of its own gets the entry of the last key
cfgEntryOfLastKey(config, ouId) ==
    LET ou == config.organizationalUnits[1]
        k == IF ouId \in Range(ou.keys) \/ Len(ou.keys) = 0 THEN ouId
             ELSE ou.keys[Len(ou.keys)]
    IN IF k \in Range(ou.keys) /\ ou.entry[k].defined
       THEN Some(ou.entry[k]) ELSE None

\* config.organizationalUnits[ouId]: the entry, or undefined
cfgEntryOf(config, ouId) ==
    LET ou == config.organizationalUnits[1]
    IN IF ouId \in Range(ou.keys) /\ ou.entry[ouId].defined
       THEN Some(ou.entry[ouId]) ELSE None

defaultBudget(config) ==
    EffectiveBudget(config.default.amount, config.default.currency,
                    config.default.thresholds)

\* resolve(ouId). m = [result, log]: `result` is the memo table, `log` lists the
\* ids for which the non-cached body ran, in order. `active` is the set of ids
\* whose resolve call is on the call stack: re-entering one of them before it is
\* cached recurses without end (RangeError: maximum call stack size exceeded).
resolveSet(m, ouId, eb) ==
    [err |-> "", m |-> [result |-> MapSet(m.result, ouId, eb), log |-> m.log], value |-> eb]

\* if (cfgEntry?.amount): an entry with a non-null, non-zero amount
hasExplicitAmount(cfgEntry) ==
    IsSome(cfgEntry) /\ IsSome(cfgEntry[1].amount) /\ cfgEntry[1].amount[1] # 0

\* null is read as "no explicit override"
neverDisabled(cfgEntry) == FALSE

\* if (cfgEntry?.amount === null)
isExplicitlyDisabled(cfgEntry) ==
    IsSome(cfgEntry) /\ cfgEntry[1].amount = None

\* the entry's own currency is dropped
explicitBudgetDefaultCurrency(entry, config) ==
    EffectiveBudget(entry.amount, config.default.currency,
                    IF IsSome(entry.thresholds)
                    THEN entry.thresholds ELSE config.default.thresholds)

\* { amount: cfgEntry.amount, currency: cfgEntry.currency ?? ..., thresholds: ... ?? ... }
explicitBudget(entry, config) ==
    EffectiveBudget(entry.amount,
                    OrElse(entry.currency, config.default.currency),
                    IF IsSome(entry.thresholds)
                    THEN entry.thresholds ELSE config.default.thresholds)

\* { currency: DISABLED_CURRENCY }
disabledBudget == EffectiveBudget(None, DISABLED_CURRENCY, None)

RECURSIVE resolve(_, _, _, _, _)
\* the stored value of an OU is never looked up
resolveNoCache(tree, config, m0, active, ouId) ==
    LET m == [result |-> m0.result, log |-> Append(m0.log, ouId)] IN
    IF ouId \notin DOMAIN tree.byId
    THEN [err |-> "unknown-ou-id", m |-> m, value |-> defaultBudget(config)]
    ELSE IF ~IsSome(config.organizationalUnits)
    THEN resolveSet(m, ouId, defaultBudget(config))
    ELSE
      LET ou == tree.byId[ouId]
          cfgEntry == cfgEntryOf(config, ouId)
      IN IF hasExplicitAmount(cfgEntry)
         THEN resolveSet(m, ouId, explicitBudget(cfgEntry[1], config))
         ELSE IF isExplicitlyDisabled(cfgEntry)
         THEN resolveSet(m, ouId, disabledBudget)
         ELSE IF ou.parentId # None
         THEN IF ou.parentId[1] \in active \cup {ouId}
              THEN [err |-> "range-error", m |-> m, value |-> defaultBudget(config)]
              ELSE LET r == resolve(tree, config, m, active \cup {ouId}, ou.parentId[1])
                   IN IF r.err # "" THEN r ELSE resolveSet(r.m, ouId, r.value)
         ELSE resolveSet(m, ouId, defaultBudget(config))

resolve(tree, config, m0, active, ouId) ==
    IF ouId \in DOMAIN m0.result
    THEN [err |-> "", m |-> m0, value |-> m0.result[ouId]]
    ELSE
    LET m == [result |-> m0.result, log |-> Append(m0.log, ouId)] IN
    IF ouId \notin DOMAIN tree.byId
    THEN [err |-> "unknown-ou-id", m |-> m, value |-> defaultBudget(config)]
    ELSE IF ~IsSome(config.organizationalUnits)
    THEN resolveSet(m, ouId, defaultBudget(config))
    ELSE
      LET ou == tree.byId[ouId]
          cfgEntry == cfgEntryOf(config, ouId)
      IN IF hasExplicitAmount(cfgEntry)
         THEN resolveSet(m, ouId, explicitBudget(cfgEntry[1], config))
         ELSE IF isExplicitlyDisabled(cfgEntry)
         THEN resolveSet(m, ouId, disabledBudget)
         ELSE IF ou.parentId # None
         THEN IF ou.parentId[1] \in active \cup {ouId}
              THEN [err |-> "range-error", m |-> m, value |-> defaultBudget(config)]
              ELSE LET r == resolve(tree, config, m, active \cup {ouId}, ou.parentId[1])
                   IN IF r.err # "" THEN r ELSE resolveSet(r.m, ouId, r.value)
         ELSE resolveSet(m, ouId, defaultBudget(config))

EmptyMemo == [result |-> EmptyMap, log |-> <<>>]

\* for (const ouId of tree.byId.keys()) resolve(ouId), from position i
RECURSIVE resolveAll(_, _, _, _)
resolveAll(tree, config, m, i) ==
    IF i > Len(tree.keys) THEN [err |-> "", m |-> m]
    ELSE LET r == resolve(tree, config, m, {}, tree.keys[i])
         IN IF r.err # "" THEN [err |-> r.err, m |-> r.m]
            ELSE resolveAll(tree, config, r.m, i + 1)

computeEffectiveBudgets(tree, config) ==
    LET v == validateBudgetConfig(config, tree.keys)
    IN IF v # "" THEN [err |-> v, result |-> EmptyMap, log |-> <<>>]
       ELSE LET r == resolveAll(tree, config, EmptyMemo, 1)
            IN [err |-> r.err, result |-> r.m.result, log |-> r.m.log]

(***************************************************************************)
(* equalBudgets on optional values: undefined is no EffectiveBudget        *)
(***************************************************************************)
\* compares the lengths only
arrayEqualLength(a, b) == Len(a) = Len(b)

arrayEqual(a, b) ==
    Len(a) = Len(b) /\ \A i \in DOMAIN a : a[i] = b[i]

\* compares the amount only
equalAmounts(a, b) ==
    IF ~IsSome(a) \/ ~IsSome(b) THEN FALSE
    ELSE a[1].amount = b[1].amount

equalBudgets(a, b) ==
    IF ~IsSome(a) \/ ~IsSome(b) THEN FALSE
    ELSE /\ a[1].amount = b[1].amount
         /\ a[1].currency = b[1].currency
         /\ arrayEqual(OrElse(a[1].thresholds, <<>>), OrElse(b[1].thresholds, <<>>))

(***************************************************************************)
(* maximalUniformSubtreeRoots                                              *)
(***************************************************************************)
MIXED == [kind |-> "mixed", value |-> None]
UniformStatus(v) == [kind |-> "uniform", value |-> v]
isUniform(s) == s.kind = "uniform"

getChildren(tree, id) == OrElse(MapGet(tree.children, id), <<>>)

\* s = [status, order]: statusById and its insertion order
statusSet(s, id, st) ==
    [err |-> "",
     s |-> [status |-> MapSet(s.status, id, st),
            order |-> IF id \in DOMAIN s.status THEN s.order ELSE Append(s.order, id)],
     value |-> st]

RECURSIVE computeStatus(_, _, _, _, _)
RECURSIVE combineChildren(_, _, _, _, _, _)

\* a node that is re-entered counts as mixed instead of raising the cycle error
computeStatusMixedOnCycle(tree, effectiveBudgets, s, visiting, id) ==
    IF id \in DOMAIN s.status
    THEN [err |-> "", s |-> s, value |-> s.status[id]]
    ELSE IF id \in visiting
    THEN [err |-> "", s |-> s, value |-> MIXED]
    ELSE combineChildren(tree, effectiveBudgets, s, visiting \cup {id}, id, 1)

\* computeStatus(id); `visiting` is the in-progress set
computeStatus(tree, effectiveBudgets, s, visiting, id) ==
    IF id \in DOMAIN s.status
    THEN [err |-> "", s |-> s, value |-> s.status[id]]
    ELSE IF id \in visiting
    THEN [err |-> "cycle", s |-> s, value |-> MIXED]
    ELSE combineChildren(tree, effectiveBudgets, s, visiting \cup {id}, id, 1)

\* compares the value of a child without looking at its kind
combineChildrenValueOnly(tree, effectiveBudgets, s, visiting, id, i) ==
    LET myVal == MapGet(effectiveBudgets, id)
        kids == getChildren(tree, id)
    IN IF i > Len(kids) THEN statusSet(s, id, UniformStatus(myVal))
       ELSE LET c == computeStatus(tree, effectiveBudgets, s, visiting, kids[i])
            IN IF c.err # "" THEN c
               ELSE IF ~equalBudgets(MapGet(effectiveBudgets, kids[i]), myVal)
                    THEN statusSet(c.s, id, MIXED)
               ELSE combineChildren(tree, effectiveBudgets, c.s, visiting, id, i + 1)

\* for (const childId of getChildren(id)) ..., from position i, then the uniform exit
combineChildren(tree, effectiveBudgets, s, visiting, id, i) ==
    LET myVal == MapGet(effectiveBudgets, id)
        kids == getChildren(tree, id)
    IN IF i > Len(kids) THEN statusSet(s, id, UniformStatus(myVal))
       ELSE LET c == computeStatus(tree, effectiveBudgets, s, visiting, kids[i])
            IN IF c.err # "" THEN c
               ELSE IF ~isUniform(c.value) THEN statusSet(c.s, id, MIXED)
               ELSE IF ~equalBudgets(c.value.value, myVal) THEN statusSet(c.s, id, MIXED)
               ELSE combineChildren(tree, effectiveBudgets, c.s, visiting, id, i + 1)

EmptyStatus == [status |-> EmptyMap, order |-> <<>>]

\* for (const r of tree.roots) computeStatus(r); for (const id of tree.byId.keys()) ...
statusTodo(tree) == tree.roots \o tree.keys

RECURSIVE statusAll(_, _, _, _)
statusAll(tree, effectiveBudgets, s, i) ==
    IF i > Len(statusTodo(tree)) THEN [err |-> "", s |-> s]
    ELSE LET c == computeStatus(tree, effectiveBudgets, s, {}, statusTodo(tree)[i])
         IN IF c.err # "" THEN [err |-> c.err, s |-> c.s]
            ELSE statusAll(tree, effectiveBudgets, c.s, i + 1)

\* 2) Collect maximal uniform subtree roots, in statusById order from position i
\* the root case is missing: a node without parent status is never collected
isMaximalRootNoRootCase(tree, s, id) ==
    LET st == s.status[id]
        parentId == IF id \in DOMAIN tree.byId THEN tree.byId[id].parentId ELSE None
    IN /\ isUniform(st)
       /\ parentId # None
       /\ LET parentStatus == MapGet(s.status, parentId[1])
          IN \/ ~IsSome(parentStatus)
             \/ ~isUniform(parentStatus[1])
             \/ ~equalBudgets(parentStatus[1].value, st.value)

isMaximalRoot(tree, s, id) ==
    LET st == s.status[id]
        parentId == IF id \in DOMAIN tree.byId THEN tree.byId[id].parentId ELSE None
    IN /\ isUniform(st)
       /\ \/ parentId = None
          \/ LET parentStatus == MapGet(s.status, parentId[1])
             IN \/ ~IsSome(parentStatus)
                \/ ~isUniform(parentStatus[1])
                \/ ~equalBudgets(parentStatus[1].value, st.value)

\* every uniform node is collected
collectEveryUniform(tree, s) ==
    SelectSeq(s.order, LAMBDA id : isUniform(s.status[id]))

collectMaximal(tree, s) ==
    SelectSeq(s.order, LAMBDA id : isMaximalRoot(tree, s, id))

maximalUniformSubtreeRoots(tree, effectiveBudgets) ==
    LET r == statusAll(tree, effectiveBudgets, EmptyStatus, 1)
    IN IF r.err # "" THEN [err |-> r.err, s |-> r.s, roots |-> <<>>]
       ELSE [err |-> "", s |-> r.s, roots |-> collectMaximal(tree, r.s)]

(***************************************************************************)
(* selectOuBudgetAttachments                                               *)
(***************************************************************************)
\* budget.amount && budget.amount > 0
attachesAnyDefinedAmount(budget) == IsSome(budget.amount)

hasPositiveAmount(budget) ==
    IsSome(budget.amount) /\ budget.amount[1] # 0 /\ budget.amount[1] > 0

\* a = [attachments, calls, active, err]: the output list, the log of traverse
\* calls, the OUs whose traverse call is on the call stack, and the error. A call
\* for an OU that is on the call stack repeats the calls between the two without
\* end (RangeError: maximum call stack size exceeded).
RECURSIVE traverse(_, _, _, _, _, _)
RECURSIVE traverseChildren(_, _, _, _, _, _, _)

enter(a0, ouId, ancestorSelected) ==
    [a0 EXCEPT !.calls = Append(@, [ouId |-> ouId, ancestorSelected |-> ancestorSelected])]

\* the attachment is put in front of the list
attachInFront(a, ouId, budget) ==
    [a EXCEPT !.attachments =
        <<OuBudgetAttachment(ouId, budget.amount[1], budget.currency,
                             budget.thresholds)>> \o @]

attach(a, ouId, budget) ==
    [a EXCEPT !.attachments =
        Append(@, OuBudgetAttachment(ouId, budget.amount[1], budget.currency,
                                     budget.thresholds))]

\* const budget = effectiveBudgets.get(ouId)!; if (budget.amount && budget.amount > 0)
\* reading .amount of undefined is a TypeError
attachIfPositive(a, ouId, budget) ==
    IF ~IsSome(budget) THEN [a EXCEPT !.err = "type-error"]
    ELSE IF hasPositiveAmount(budget[1]) THEN attach(a, ouId, budget[1])
    ELSE a

\* for (const childId of childIds) traverse(childId, flag), with ouId on the call stack
\* every child is told that an ancestor was selected
descendSelected(tree, effectiveBudgets, homogeneousSubtrees, a, ouId, flag) ==
    LET r == traverseChildren(tree, effectiveBudgets, homogeneousSubtrees,
                              [a EXCEPT !.active = @ \cup {ouId}], ouId, TRUE, 1)
    IN [r EXCEPT !.active = a.active]

descend(tree, effectiveBudgets, homogeneousSubtrees, a, ouId, flag) ==
    LET r == traverseChildren(tree, effectiveBudgets, homogeneousSubtrees,
                              [a EXCEPT !.active = @ \cup {ouId}], ouId, flag, 1)
    IN [r EXCEPT !.active = a.active]

\* attaches at every OU that has a positive budget and always descends
traverseEveryOu(tree, effectiveBudgets, homogeneousSubtrees, a0, ouId, ancestorSelected) ==
    IF a0.err # "" THEN a0
    ELSE IF ouId \in a0.active THEN [a0 EXCEPT !.err = "range-error"]
    ELSE
    descend(tree, effectiveBudgets, homogeneousSubtrees,
            attachIfPositive(enter(a0, ouId, ancestorSelected), ouId,
                             MapGet(effectiveBudgets, ouId)),
            ouId, FALSE)

\* attaches at the OUs without children only
traverseLeafRegions(tree, effectiveBudgets, homogeneousSubtrees, a0, ouId, ancestorSelected) ==
    IF a0.err # "" THEN a0
    ELSE IF ouId \in a0.active THEN [a0 EXCEPT !.err = "range-error"]
    ELSE
    LET canCoverSubtree == ouId \in homogeneousSubtrees /\ getChildren(tree, ouId) = <<>>
        a == enter(a0, ouId, ancestorSelected)
    IN IF canCoverSubtree /\ ~ancestorSelected
       THEN attachIfPositive(a, ouId, MapGet(effectiveBudgets, ouId))
       ELSE descend(tree, effectiveBudgets, homogeneousSubtrees, a, ouId,
                    ancestorSelected \/ canCoverSubtree)

traverse(tree, effectiveBudgets, homogeneousSubtrees, a0, ouId, ancestorSelected) ==
    IF a0.err # "" THEN a0
    ELSE IF ouId \in a0.active THEN [a0 EXCEPT !.err = "range-error"]
    ELSE
    LET canCoverSubtree == ouId \in homogeneousSubtrees
        a == enter(a0, ouId, ancestorSelected)
    IN IF canCoverSubtree /\ ~ancestorSelected
       THEN attachIfPositive(a, ouId, MapGet(effectiveBudgets, ouId))
       ELSE descend(tree, effectiveBudgets, homogeneousSubtrees, a, ouId,
                    ancestorSelected \/ canCoverSubtree)

\* returns after the first child
traverseFirstChildOnly(tree, effectiveBudgets, homogeneousSubtrees, a, ouId, flag, i) ==
    LET childIds == OrElse(MapGet(tree.children, ouId), <<>>)
    IN IF i > Len(childIds) \/ i > 1 THEN a
       ELSE traverse(tree, effectiveBudgets, homogeneousSubtrees, a, childIds[i], flag)

traverseChildren(tree, effectiveBudgets, homogeneousSubtrees, a, ouId, flag, i) ==
    LET childIds == getChildren(tree, ouId)
    IN IF i > Len(childIds) \/ a.err # "" THEN a
       ELSE traverseChildren(tree, effectiveBudgets, homogeneousSubtrees,
                traverse(tree, effectiveBudgets, homogeneousSubtrees, a, childIds[i], flag),
                ouId, flag, i + 1)

RECURSIVE traverseRoots(_, _, _, _, _)
traverseRoots(tree, effectiveBudgets, homogeneousSubtrees, a, i) ==
    IF i > Len(tree.roots) THEN a
    ELSE traverseRoots(tree, effectiveBudgets, homogeneousSubtrees,
             traverse(tree, effectiveBudgets, homogeneousSubtrees, a, tree.roots[i], FALSE),
             i + 1)

\* const attachments: OuBudgetAttachment[] = []
NoAttachments == [attachments |-> <<>>, calls |-> <<>>, active |-> {}, err |-> ""]

selectOuBudgetAttachments(tree, effectiveBudgets, homogeneousSubtrees) ==
    traverseRoots(tree, effectiveBudgets, homogeneousSubtrees, NoAttachments, 1)

(***************************************************************************)
(* computeOuBudgetAttachments                                              *)
(***************************************************************************)
Failed(e) == [err |-> e, effectiveBudgets |-> EmptyMap, attachments |-> <<>>]

computeOuBudgetAttachments(ous, config) ==
    LET b == buildOuTree(ous) IN
    IF b.err # "" THEN Failed(b.err) ELSE
    LET e == computeEffectiveBudgets(b.tree, config) IN
    IF e.err # "" THEN Failed(e.err) ELSE
    LET h == maximalUniformSubtreeRoots(b.tree, e.result) IN
    IF h.err # "" THEN Failed(h.err) ELSE
    LET a == selectOuBudgetAttachments(b.tree, e.result, Range(h.roots)) IN
    IF a.err # "" THEN Failed(a.err) ELSE
    [err |-> "", effectiveBudgets |-> e.result, attachments |-> a.attachments]

(***************************************************************************)
(* Inputs                                                                  *)
(***************************************************************************)
MaxOus == 3
MaxEntries == 2

AllIds == <<"A", "B", "C", "D", "E", "F">>
Ids == SubSeq(AllIds, 1, MaxOus)

\* the list [Ids[1] .. Ids[n]] with parent indices f (0 is parentId null)
OuList(n, f) ==
    [i \in 1..n |-> OuNode(Ids[i], IF f[i] = 0 THEN None ELSE Some(Ids[f[i]]))]

ListedIds(list) == {list[i].id : i \in DOMAIN list}
NodeOf(list, id) == list[CHOOSE i \in DOMAIN list : list[i].id = id]

\* the parent chain of id reaches a root within `fuel` steps
RECURSIVE ReachesRoot(_, _, _)
ReachesRoot(list, id, fuel) ==
    LET p == NodeOf(list, id).parentId
    IN IF p = None THEN TRUE
       ELSE /\ fuel > 0
            /\ p[1] \in ListedIds(list)
            /\ ReachesRoot(list, p[1], fuel - 1)

\* distinct non-empty ids, exactly one root, every other parentId names a listed
\* OU, no parent cycle
WellFormed(list) ==
    /\ \A i \in DOMAIN list : list[i].id # ""
    /\ \A i, j \in DOMAIN list : list[i].id = list[j].id => i = j
    /\ Cardinality({i \in DOMAIN list : list[i].parentId = None}) = 1
    /\ \A i \in DOMAIN list : ReachesRoot(list, list[i].id, Len(list))

\* every OU is listed after its parent
ParentFirst(n, f) == \A i \in 1..n : f[i] < i
\* every OU is listed before its parent
ChildFirst(n, f) == \A i \in 1..n : f[i] = 0 \/ f[i] > i

DEFAULT_THRESHOLDS == <<75, 100>>

EntryOpts ==
    { NullEntry, UndefinedEntry,
      OuBudgetConfigEntry(Some(0), None, None),
      OuBudgetConfigEntry(Some(1), None, None),
      OuBudgetConfigEntry(Some(2), None, None),
      OuBudgetConfigEntry(Some(-1), None, None),
      OuBudgetConfigEntry(Some(1), Some("EUR"), None),
      OuBudgetConfigEntry(Some(1), None, Some(<<>>)) }

Defaults ==
    { [amount |-> None, currency |-> "USD", thresholds |-> None],
      [amount |-> Some(0), currency |-> "USD", thresholds |-> None],
      [amount |-> Some(1), currency |-> "USD", thresholds |-> Some(DEFAULT_THRESHOLDS)] }

BudgetConfig(default, organizationalUnits) ==
    [default |-> default, organizationalUnits |-> organizationalUnits]

\* organizationalUnits with keys K (in the order of Ids) and entries e
OuEntries(K, e) ==
    [keys |-> SelectSeq(Ids, LAMBDA k : k \in K), entry |-> e]

\* Inputs of the repository's own tests
simpleValidOus ==
    << OuNode("A", None), OuNode("B", Some("A")), OuNode("C", Some("A")),
       OuNode("D", Some("B")), OuNode("E", Some("B")) >>

\* budget-planner.test.ts: default 1000 USD, A: null, B: 100, C: 500, D: null
inheritanceTestConfig ==
    BudgetConfig(
        [amount |-> Some(1000), currency |-> "USD", thresholds |-> None],
        Some([keys |-> <<"A", "B", "C", "D">>,
              entry |-> [k \in {"A", "B", "C", "D"} |->
                  CASE k = "A" -> OuBudgetConfigEntry(None, Some("USD"), None)
                    [] k = "B" -> OuBudgetConfigEntry(Some(100), Some("USD"), None)
                    [] k = "C" -> OuBudgetConfigEntry(Some(500), Some("USD"), None)
                    [] k = "D" -> OuBudgetConfigEntry(None, Some("USD"), None)]]))

\* computeEffectiveBudgets.no-default.test.ts: r -> ou-a(100 EUR) -> {ou-b(null), ou-c}
disabledChildOus ==
    << OuNode("r", None), OuNode("ou-a", Some("r")),
       OuNode("ou-b", Some("ou-a")), OuNode("ou-c", Some("ou-a")) >>

disabledChildConfig ==
    BudgetConfig(
        [amount |-> None, currency |-> DISABLED_CURRENCY,
         thresholds |-> Some(DEFAULT_THRESHOLDS)],
        Some([keys |-> <<"ou-a", "ou-b">>,
              entry |-> [k \in {"ou-a", "ou-b"} |->
                  IF k = "ou-a"
                  THEN OuBudgetConfigEntry(Some(100), Some("EUR"), Some(DEFAULT_THRESHOLDS))
                  ELSE OuBudgetConfigEntry(None, Some("USD"), Some(DEFAULT_THRESHOLDS))]]))

\* computeEffectiveBudgets.no-default.test.ts: ou-a(100 EUR, [50, 90]) ->
\* {ou-b(100 EUR, default thresholds), ou-c}
thresholdsTestOus ==
    << OuNode("ou-a", None), OuNode("ou-b", Some("ou-a")), OuNode("ou-c", Some("ou-a")) >>

thresholdsTestConfig ==
    BudgetConfig(
        [amount |-> None, currency |-> DISABLED_CURRENCY,
         thresholds |-> Some(DEFAULT_THRESHOLDS)],
        Some([keys |-> <<"ou-a", "ou-b">>,
              entry |-> [k \in {"ou-a", "ou-b"} |->
                  IF k = "ou-a"
                  THEN OuBudgetConfigEntry(Some(100), Some("EUR"), Some(<<50, 90>>))
                  ELSE OuBudgetConfigEntry(Some(100), Some("EUR"), Some(DEFAULT_THRESHOLDS))]]))

\* budget-alerts-stack.targets.test.ts: root -> prod(50) -> {teamA, teamB}, default 10 USD
targetsTestOus ==
    << OuNode("root", None), OuNode("prod", Some("root")),
       OuNode("teamA", Some("prod")), OuNode("teamB", Some("prod")) >>

targetsTestConfig ==
    BudgetConfig(
        [amount |-> Some(10), currency |-> "USD", thresholds |-> None],
        Some([keys |-> <<"prod">>,
              entry |-> [k \in {"prod"} |-> OuBudgetConfigEntry(Some(50), Some("USD"), None)]]))

\* budget-planner.test.ts, computeHomogeneousSubtrees: A = B = D = 100, C = 200, E = 300
homogeneousTestBudgets ==
    [k \in {"A", "B", "C", "D", "E"} |->
        EffectiveBudget(Some(CASE k = "C" -> 200 [] k = "E" -> 300 [] OTHER -> 100),
                        "USD", None)]

\* budget-alerts-stack.values.test.ts: root -> env -> {dev(10), prod(50)}, default 10 USD
siblingsTestOus ==
    << OuNode("root", None), OuNode("env", Some("root")),
       OuNode("dev", Some("env")), OuNode("prod", Some("env")) >>

siblingsTestConfig ==
    BudgetConfig(
        [amount |-> Some(10), currency |-> "USD", thresholds |-> None],
        Some([keys |-> <<"dev", "prod">>,
              entry |-> [k \in {"dev", "prod"} |->
                  OuBudgetConfigEntry(Some(IF k = "dev" THEN 10 ELSE 50), Some("USD"), None)]]))

TestInputs ==
    { [ous |-> siblingsTestOus, config |-> siblingsTestConfig],
      [ous |-> simpleValidOus, config |-> inheritanceTestConfig],
      [ous |-> disabledChildOus, config |-> disabledChildConfig],
      [ous |-> thresholdsTestOus, config |-> thresholdsTestConfig],
      [ous |-> targetsTestOus, config |-> targetsTestConfig] }

\* a default the config loader lets through: isNullableBudgetConfig checks the type
\* of default.amount only
NegativeDefault == [amount |-> Some(-1), currency |-> "USD", thresholds |-> None]

\* config with the entry of x replaced by { amount: null }
disableOu(cfg, x) ==
    LET ou == OrElse(cfg.organizationalUnits, [keys |-> <<>>, entry |-> EmptyMap])
    IN BudgetConfig(cfg.default,
           Some([keys |-> IF x \in Range(ou.keys) THEN ou.keys ELSE Append(ou.keys, x),
                 entry |-> MapSet(ou.entry, x, NullEntry)]))

(***************************************************************************)
(* One planning run, one step per function that computeOuBudgetAttachments *)
(* calls, followed by a second run on the same list with one OU disabled   *)
(***************************************************************************)
VARIABLES ous, config, pc, err, tree, memo, status, homogeneous, attachments,
          calls, replan

\* Two invocations of computeOuBudgetAttachments by two callers: the arguments
\* and position of each (invocation) and the locals of each call (frame)
VARIABLES invocation, frame

callVars == <<invocation, frame>>

\* One invocation of the forward-sns-message handler: the environment variable,
\* the SQS event, the promises of the map callbacks, the calls that
\* snsClient.send has received, and the promise the handler returns
VARIABLES TARGET_SNS_TOPIC_ARN, event, promises, snsCalls, handlerResult

forwardVars == <<TARGET_SNS_TOPIC_ARN, event, promises, snsCalls, handlerResult>>

vars == <<ous, config, pc, err, tree, memo, status, homogeneous, attachments,
          calls, replan, invocation, frame,
          TARGET_SNS_TOPIC_ARN, event, promises, snsCalls, handlerResult>>

NotReplanned == [x |-> "", out |-> Failed("")]

InitRun ==
    /\ pc = "start"
    /\ err = ""
    /\ tree = EmptyTree
    /\ memo = EmptyMemo
    /\ status = EmptyStatus
    /\ homogeneous = <<>>
    /\ attachments = <<>>
    /\ calls = <<>>
    /\ replan = NotReplanned

\* no second caller
NoCalls ==
    /\ invocation = <<>>
    /\ frame = <<>>

NotInvoked == [state |-> "idle", error |-> ""]

\* the handler is not invoked
NoForward ==
    /\ TARGET_SNS_TOPIC_ARN = None
    /\ event = [Records |-> <<>>]
    /\ promises = <<>>
    /\ snsCalls = <<>>
    /\ handlerResult = NotInvoked

Init ==
    /\ \/ \E n \in 1..MaxOus : \E f \in [1..n -> 0..n] :
            /\ (ParentFirst(n, f) \/ ChildFirst(n, f))
            /\ WellFormed(OuList(n, f))
            /\ ous = OuList(n, f)
            /\ \/ \E d \in Defaults :
                    \/ config = BudgetConfig(d, None)
                    \/ \E K \in SUBSET Range(Ids) :
                         /\ Cardinality(K) <= MaxEntries
                         /\ \E e \in [K -> EntryOpts] :
                              config = BudgetConfig(d, Some(OuEntries(K, e)))
               \/ config = BudgetConfig(NegativeDefault, None)
               \/ \E k \in Range(Ids) : \E e \in [{k} -> EntryOpts] :
                    config = BudgetConfig(NegativeDefault, Some(OuEntries({k}, e)))
       \/ \E t \in TestInputs : ous = t.ous /\ config = t.config
    /\ InitRun
    /\ NoCalls
    /\ NoForward

Fail(e) ==
    /\ pc' = "failed"
    /\ err' = e

\* const tree = buildOuTree(ous)
BuildOuTree ==
    /\ pc = "start"
    /\ LET b == buildOuTree(ous)
       IN IF b.err # ""
          THEN Fail(b.err) /\ UNCHANGED tree
          ELSE tree' = b.tree /\ pc' = "built" /\ UNCHANGED err
    /\ UNCHANGED <<ous, config, memo, status, homogeneous, attachments, calls, replan>>
    /\ UNCHANGED callVars
    /\ UNCHANGED forwardVars

\* const effectiveBudgets = computeEffectiveBudgets(tree, config)
ComputeEffectiveBudgets ==
    /\ pc = "built"
    /\ LET e == computeEffectiveBudgets(tree, config)
       IN /\ memo' = [result |-> e.result, log |-> e.log]
          /\ IF e.err # "" THEN Fail(e.err) ELSE pc' = "resolved" /\ UNCHANGED err
    /\ UNCHANGED <<ous, config, tree, status, homogeneous, attachments, calls, replan>>
    /\ UNCHANGED callVars
    /\ UNCHANGED forwardVars

\* const homogeneous = maximalUniformSubtreeRoots(tree, effectiveBudgets)
MaximalUniformSubtreeRoots ==
    /\ pc = "resolved"
    /\ LET h == maximalUniformSubtreeRoots(tree, memo.result)
       IN /\ status' = h.s
          /\ homogeneous' = h.roots
          /\ IF h.err # "" THEN Fail(h.err) ELSE pc' = "classified" /\ UNCHANGED err
    /\ UNCHANGED <<ous, config, tree, memo, attachments, calls, replan>>
    /\ UNCHANGED callVars
    /\ UNCHANGED forwardVars

\* selectOuBudgetAttachments(tree, effectiveBudgets, new Set(homogeneous))
SelectOuBudgetAttachments ==
    /\ pc = "classified"
    /\ LET a == selectOuBudgetAttachments(tree, memo.result, Range(homogeneous))
       IN /\ calls' = a.calls
          /\ IF a.err # ""
             THEN Fail(a.err) /\ UNCHANGED attachments
             ELSE attachments' = a.attachments /\ pc' = "done" /\ UNCHANGED err
    /\ UNCHANGED <<ous, config, tree, memo, status, homogeneous, replan>>
    /\ UNCHANGED callVars
    /\ UNCHANGED forwardVars

\* computeOuBudgetAttachments(ous, config') where config' has the entry of x
\* replaced by { amount: null }
Replan ==
    /\ pc = "done"
    /\ \E x \in DOMAIN tree.byId :
         replan' = [x |-> x, out |-> computeOuBudgetAttachments(ous, disableOu(config, x))]
    /\ pc' = "replanned"
    /\ UNCHANGED <<ous, config, err, tree, memo, status, homogeneous, attachments, calls>>
    /\ UNCHANGED callVars
    /\ UNCHANGED forwardVars

Next ==
    \/ BuildOuTree
    \/ ComputeEffectiveBudgets
    \/ MaximalUniformSubtreeRoots
    \/ SelectOuBudgetAttachments
    \/ Replan

Spec == Init /\ [][Next]_vars

\* One planning run without the second run
NextPlan ==
    \/ BuildOuTree
    \/ ComputeEffectiveBudgets
    \/ MaximalUniformSubtreeRoots
    \/ SelectOuBudgetAttachments

SpecPlan == Init /\ [][NextPlan]_vars

(***************************************************************************)
(* One planning run on any list: entries without id, repeated ids, any     *)
(* number of entries without parent, parents that are not listed           *)
(***************************************************************************)
MaxListLen == 4

AnyNodes == {OuNode(id, p) : id \in {"", "A", "B"}, p \in {None, Some("A"), Some("B")}}

AnyListConfigs ==
    LET d == [amount |-> Some(1), currency |-> "USD", thresholds |-> Some(DEFAULT_THRESHOLDS)]
    IN { BudgetConfig(d, None),
         BudgetConfig(d, Some([keys |-> <<>>, entry |-> EmptyMap])),
         BudgetConfig(d, Some([keys |-> <<"B">>,
                               entry |-> [k \in {"B"} |->
                                   OuBudgetConfigEntry(Some(2), None, None)]])) }

InitAnyList ==
    /\ \E n \in 0..MaxListLen : ous \in [1..n -> AnyNodes]
    /\ config \in AnyListConfigs
    /\ InitRun
    /\ NoCalls
    /\ NoForward

SpecAnyList == InitAnyList /\ [][NextPlan]_vars

(***************************************************************************)
(* Several callers invoke computeOuBudgetAttachments and their steps       *)
(* interleave. Each invocation has its own arguments and position          *)
(* (invocation[k]) and its own locals tree, effectiveBudgets, homogeneous  *)
(* (frame[frameOf(k)]); the maps and lists the four functions work on are  *)
(* allocated inside each call.                                             *)
(***************************************************************************)
MaxCallers == 2
Callers == 1..MaxCallers

CallOus ==
    { << OuNode("A", None) >>,
      << OuNode("A", None), OuNode("B", Some("A")) >>,
      << OuNode("B", Some("A")), OuNode("A", None) >> }

CallConfigs ==
    LET d == [amount |-> Some(1), currency |-> "USD", thresholds |-> Some(DEFAULT_THRESHOLDS)]
        one(k, entry) == Some([keys |-> <<k>>, entry |-> [x \in {k} |-> entry]])
    IN { BudgetConfig(d, None),
         BudgetConfig(d, one("B", OuBudgetConfigEntry(Some(2), None, None))),
         BudgetConfig(d, one("A", NullEntry)),
         BudgetConfig(d, one("A", OuBudgetConfigEntry(Some(-1), None, None))) }

Arguments(o, c) == [ous |-> o, config |-> c, pc |-> "start", err |-> "", attachments |-> <<>>]
EmptyFrame == [tree |-> EmptyTree, effectiveBudgets |-> EmptyMap, homogeneous |-> <<>>]

mainVars == <<ous, config, pc, err, tree, memo, status, homogeneous, attachments,
              calls, replan>>

InitCalls ==
    /\ invocation \in [Callers -> {Arguments(o, c) : o \in CallOus, c \in CallConfigs}]
    /\ frame = [k \in Callers |-> EmptyFrame]
    /\ ous = <<>>
    /\ config = BudgetConfig([amount |-> None, currency |-> DISABLED_CURRENCY,
                               thresholds |-> None], None)
    /\ InitRun
    /\ NoForward

\* all callers use the locals of the first
frameOfFirst(k) == 1

\* const tree, effectiveBudgets, homogeneous: locals of the invocation
frameOf(k) == k

\* the list is kept between calls: what another caller got is still in it
returnedAfterEarlier(k, a) ==
    LET other == IF k = 1 THEN 2 ELSE 1
    IN (IF invocation[other].pc = "done" THEN invocation[other].attachments ELSE <<>>)
           \o a.attachments

\* return attachments
returned(k, a) == a.attachments

CallFail(k, e) ==
    invocation' = [invocation EXCEPT ![k].pc = "failed", ![k].err = e]

CallBuildOuTree(k) ==
    /\ invocation[k].pc = "start"
    /\ LET b == buildOuTree(invocation[k].ous)
       IN IF b.err # ""
          THEN CallFail(k, b.err) /\ UNCHANGED frame
          ELSE /\ frame' = [frame EXCEPT ![frameOf(k)].tree = b.tree]
               /\ invocation' = [invocation EXCEPT ![k].pc = "built"]
    /\ UNCHANGED mainVars
    /\ UNCHANGED forwardVars

CallComputeEffectiveBudgets(k) ==
    /\ invocation[k].pc = "built"
    /\ LET e == computeEffectiveBudgets(frame[frameOf(k)].tree, invocation[k].config)
       IN IF e.err # ""
          THEN CallFail(k, e.err) /\ UNCHANGED frame
          ELSE /\ frame' = [frame EXCEPT ![frameOf(k)].effectiveBudgets = e.result]
               /\ invocation' = [invocation EXCEPT ![k].pc = "resolved"]
    /\ UNCHANGED mainVars
    /\ UNCHANGED forwardVars

CallMaximalUniformSubtreeRoots(k) ==
    /\ invocation[k].pc = "resolved"
    /\ LET h == maximalUniformSubtreeRoots(frame[frameOf(k)].tree,
                                            frame[frameOf(k)].effectiveBudgets)
       IN IF h.err # ""
          THEN CallFail(k, h.err) /\ UNCHANGED frame
          ELSE /\ frame' = [frame EXCEPT ![frameOf(k)].homogeneous = h.roots]
               /\ invocation' = [invocation EXCEPT ![k].pc = "classified"]
    /\ UNCHANGED mainVars
    /\ UNCHANGED forwardVars

CallSelectOuBudgetAttachments(k) ==
    /\ invocation[k].pc = "classified"
    /\ LET a == selectOuBudgetAttachments(frame[frameOf(k)].tree,
                                           frame[frameOf(k)].effectiveBudgets,
                                           Range(frame[frameOf(k)].homogeneous))
       IN IF a.err # ""
          THEN CallFail(k, a.err)
          ELSE invocation' = [invocation EXCEPT ![k].pc = "done",
                                                ![k].attachments = returned(k, a)]
    /\ UNCHANGED frame
    /\ UNCHANGED mainVars
    /\ UNCHANGED forwardVars

NextCalls ==
    \E k \in Callers :
        \/ CallBuildOuTree(k)
        \/ CallComputeEffectiveBudgets(k)
        \/ CallMaximalUniformSubtreeRoots(k)
        \/ CallSelectOuBudgetAttachments(k)

SpecCalls == InitCalls /\ [][NextCalls]_vars

(***************************************************************************)
(* The forward-sns-message Lambda handler. The handler runs from its       *)
(* invocation to `await Promise.all(promises)` without interruption; the   *)
(* sends it has issued settle afterwards, one at a time, in any order.     *)
(***************************************************************************)
MaxRecords == 3

\* what JSON.parse(record.body) gives: an SNS message of type Notification or
\* SubscriptionConfirmation, a message of another type, or a SyntaxError
RecordBodies == {"Notification", "SubscriptionConfirmation", "Other", "Malformed"}

Pending == [state |-> "pending", error |-> ""]
Fulfilled == [state |-> "fulfilled", error |-> ""]
Rejected(e) == [state |-> "rejected", error |-> e]

EnvError == "TARGET_SNS_TOPIC_ARN environment variable is not set"
SyntaxError(i) == <<"SyntaxError", i>>
\* the error with which the send for record i rejects
SendError(i) == <<"SendError", i>>

\* snsClient.send(command) for record i: the call is recorded, the promise is pending
send(m, i, command) ==
    [promises |-> Append(m.promises, Pending),
     calls |-> Append(m.calls, [record |-> i, command |-> command])]

\* the callback issues nothing once a promise of the batch is rejected
callbackStopsAfterRejection(m, record, i) ==
    IF \E j \in DOMAIN m.promises : m.promises[j].state = "rejected"
    THEN [m EXCEPT !.promises = Append(@, Fulfilled)]
    ELSE IF record.body = "Malformed"
    THEN [m EXCEPT !.promises = Append(@, Rejected(SyntaxError(i)))]
    ELSE IF record.body = "SubscriptionConfirmation"
    THEN send(m, i, "ConfirmSubscriptionCommand")
    ELSE IF record.body = "Notification"
    THEN send(m, i, "PublishCommand")
    ELSE [m EXCEPT !.promises = Append(@, Fulfilled)]

\* async (record) => { ... }, up to its first await
callback(m, record, i) ==
    IF record.body = "Malformed"
    THEN [m EXCEPT !.promises = Append(@, Rejected(SyntaxError(i)))]
    ELSE IF record.body = "SubscriptionConfirmation"
    THEN send(m, i, "ConfirmSubscriptionCommand")
    ELSE IF record.body = "Notification"
    THEN send(m, i, "PublishCommand")
    ELSE [m EXCEPT !.promises = Append(@, Fulfilled)]

RECURSIVE mapRecords(_, _, _)
\* event.Records.map(callback), from position i
mapRecords(records, i, m) ==
    IF i > Len(records) THEN m
    ELSE mapRecords(records, i + 1, callback(m, records[i], i))

\* Promise.all(promises) right after the map: rejected with the error of the first
\* promise that is already rejected, fulfilled when all are fulfilled
promiseAll(ps) ==
    IF \E i \in DOMAIN ps : ps[i].state = "rejected"
    THEN LET first == CHOOSE i \in DOMAIN ps :
                         /\ ps[i].state = "rejected"
                         /\ \A j \in DOMAIN ps : ps[j].state = "rejected" => i <= j
         IN Rejected(ps[first].error)
    ELSE IF \A i \in DOMAIN ps : ps[i].state = "fulfilled"
    THEN Fulfilled
    ELSE Pending

plannerIdle ==
    /\ ous = <<>>
    /\ config = BudgetConfig([amount |-> None, currency |-> DISABLED_CURRENCY,
                               thresholds |-> None], None)
    /\ InitRun
    /\ NoCalls

InitForward ==
    /\ TARGET_SNS_TOPIC_ARN \in {None, Some("arn:aws:sns:target-topic")}
    /\ \E n \in 0..MaxRecords :
         \E b \in [1..n -> RecordBodies] :
            event = [Records |-> [i \in 1..n |-> [body |-> b[i]]]]
    /\ promises = <<>>
    /\ snsCalls = <<>>
    /\ handlerResult = NotInvoked
    /\ plannerIdle

plannerVars == <<ous, config, pc, err, tree, memo, status, homogeneous, attachments,
                 calls, replan, invocation, frame>>

\* handler(event, context), up to the await of Promise.all
Handler ==
    /\ handlerResult = NotInvoked
    /\ IF TARGET_SNS_TOPIC_ARN = None
       THEN /\ handlerResult' = Rejected(EnvError)
            /\ UNCHANGED <<promises, snsCalls>>
       ELSE LET m == mapRecords(event.Records, 1, [promises |-> <<>>, calls |-> <<>>])
            IN /\ promises' = m.promises
               /\ snsCalls' = m.calls
               /\ handlerResult' = promiseAll(m.promises)
    /\ UNCHANGED <<TARGET_SNS_TOPIC_ARN, event>>
    /\ UNCHANGED plannerVars

\* the send for record i resolves; the handler returns when it was the last one
SendResolves(i) ==
    /\ i \in DOMAIN promises
    /\ promises[i] = Pending
    /\ promises' = [promises EXCEPT ![i] = Fulfilled]
    /\ handlerResult' = IF handlerResult = Pending THEN promiseAll(promises')
                        ELSE handlerResult
    /\ UNCHANGED <<TARGET_SNS_TOPIC_ARN, event, snsCalls>>
    /\ UNCHANGED plannerVars

\* the send for record i rejects; the catch blocks rethrow the error
SendRejects(i) ==
    /\ i \in DOMAIN promises
    /\ promises[i] = Pending
    /\ promises' = [promises EXCEPT ![i] = Rejected(SendError(i))]
    /\ handlerResult' = IF handlerResult = Pending THEN Rejected(SendError(i))
                        ELSE handlerResult
    /\ UNCHANGED <<TARGET_SNS_TOPIC_ARN, event, snsCalls>>
    /\ UNCHANGED plannerVars

NextForward ==
    \/ Handler
    \/ \E i \in 1..MaxRecords : SendResolves(i)
    \/ \E i \in 1..MaxRecords : SendRejects(i)

SpecForward == InitForward /\ [][NextForward]_vars

(***************************************************************************)
(* Vocabulary of the properties (over the input list, which is well formed *)
(* in every state of Spec)                                                 *)
(***************************************************************************)
OuIds == ListedIds(ous)
ParentOf(id) == NodeOf(ous, id).parentId

RECURSIVE AncestorsOrSelf(_)
AncestorsOrSelf(id) ==
    {id} \cup (IF ParentOf(id) = None THEN {} ELSE AncestorsOrSelf(ParentOf(id)[1]))

SubtreeOf(id) == {d \in OuIds : id \in AncestorsOrSelf(d)}

\* computeEffectiveBudgets has returned
Resolved == pc \in {"resolved", "classified", "done", "replanned"}
\* computeOuBudgetAttachments has returned
Planned == pc \in {"done", "replanned"}

EB == memo.result
Positive(b) == IsSome(b.amount) /\ b.amount[1] > 0
SameBudget(a, b) ==
    /\ a.amount = b.amount
    /\ a.currency = b.currency
    /\ OrElse(a.thresholds, <<>>) = OrElse(b.thresholds, <<>>)

\* every OU of the subtree of id has the budget of id
SubtreeUniform(eb, id) == \A d \in SubtreeOf(id) : SameBudget(eb[d], eb[id])

\* the attachments of list att placed at id or at an ancestor of id
Covering(att, id) == {i \in DOMAIN att : att[i].ouId \in AncestorsOrSelf(id)}

BudgetOf(a) == EffectiveBudget(Some(a.amount), a.currency, a.thresholds)

EntryOf(id) ==
    IF IsSome(config.organizationalUnits)
       /\ id \in Range(config.organizationalUnits[1].keys)
       /\ config.organizationalUnits[1].entry[id].defined
    THEN Some(config.organizationalUnits[1].entry[id])
    ELSE None

HasNullEntry(id) == IsSome(EntryOf(id)) /\ EntryOf(id)[1].amount = None
HasAmountEntry(id) == IsSome(EntryOf(id)) /\ EntryOf(id)[1].amount # None

\* the budget an OU takes over: its parent's, config.default at the root
Inherited(eb, id) ==
    IF ParentOf(id) = None
    THEN EffectiveBudget(config.default.amount, config.default.currency,
                         config.default.thresholds)
    ELSE eb[ParentOf(id)[1]]

(***************************************************************************)
(* C1 (as stated): once planning has returned, every OU with a positive    *)
(* effective budget has exactly one attachment at itself or an ancestor.   *)
(***************************************************************************)
C1_CoverageOfEveryPositiveOu ==
    Planned =>
        \A id \in OuIds :
            Positive(EB[id]) => Cardinality(Covering(attachments, id)) = 1

(***************************************************************************)
(* C1 (amended): an OU with a positive effective budget has exactly one    *)
(* attachment at itself or an ancestor if every OU of its subtree has that *)
(* same budget, and none at all if its subtree holds a different budget.   *)
(***************************************************************************)
C1_CoverageOfUniformSubtrees ==
    Planned =>
        \A id \in OuIds :
            Positive(EB[id]) =>
                Cardinality(Covering(attachments, id)) =
                    (IF SubtreeUniform(EB, id) THEN 1 ELSE 0)

C1_Witness ==
    /\ Planned
    /\ \E id \in OuIds :
         /\ Positive(EB[id]) /\ SubtreeUniform(EB, id)
         /\ \E i \in DOMAIN attachments :
              attachments[i].ouId # id /\ attachments[i].ouId \in AncestorsOrSelf(id)
    /\ \E id \in OuIds : Positive(EB[id]) /\ ~SubtreeUniform(EB, id)

(***************************************************************************)
(* C2: no two attachments of the returned list are placed at OUs of which  *)
(* one is an ancestor (or descendant) of the other, or at the same OU.     *)
(***************************************************************************)
C2_NoOverlap ==
    Planned =>
        \A i, j \in DOMAIN attachments :
            i # j => attachments[i].ouId \notin AncestorsOrSelf(attachments[j].ouId)

C2_Witness ==
    /\ Planned
    /\ Len(attachments) >= 2
    /\ \E i \in DOMAIN attachments : ParentOf(attachments[i].ouId) # None

(***************************************************************************)
(* C3: every OU in the subtree of an attachment's OU has an effective      *)
(* budget with the attachment's amount, currency and thresholds (a missing *)
(* thresholds list reads as the empty list, as in equalBudgets); in the    *)
(* repository's disabled-child test the only attachment is at ou-c.        *)
(***************************************************************************)
C3_AttachmentSoundness ==
    Planned =>
        /\ \A i \in DOMAIN attachments :
             \A d \in SubtreeOf(attachments[i].ouId) :
                 SameBudget(EB[d], BudgetOf(attachments[i]))
        /\ (ous = disabledChildOus /\ config = disabledChildConfig) =>
               attachments =
                   << OuBudgetAttachment("ou-c", 100, "EUR", Some(DEFAULT_THRESHOLDS)) >>

C3_Witness ==
    /\ Planned
    /\ \E i \in DOMAIN attachments :
         /\ Cardinality(SubtreeOf(attachments[i].ouId)) >= 2
         /\ \E d \in SubtreeOf(attachments[i].ouId) :
              d # attachments[i].ouId /\ HasAmountEntry(d)
    /\ \E id \in OuIds : ~SubtreeUniform(EB, id)

(***************************************************************************)
(* C4: every attachment has a defined amount > 0 which, with its currency  *)
(* and thresholds, is the effective budget of its own OU; a maximal region *)
(* without a positive amount gets no attachment and traverse is not called *)
(* below its root; when no OU has a positive budget the list is empty.     *)
(***************************************************************************)
C4_PositiveAmounts ==
    Planned =>
        /\ \A i \in DOMAIN attachments :
             /\ attachments[i].amount > 0
             /\ EB[attachments[i].ouId] = BudgetOf(attachments[i])
        /\ \A h \in Range(homogeneous) :
             ~Positive(EB[h]) =>
                 /\ \A i \in DOMAIN attachments : attachments[i].ouId \notin SubtreeOf(h)
                 /\ \A c \in DOMAIN calls :
                      calls[c].ouId \in SubtreeOf(h) => calls[c].ouId = h
        /\ (\A id \in OuIds : ~Positive(EB[id])) => attachments = <<>>

C4_Witness ==
    /\ Planned
    /\ \E h \in Range(homogeneous) :
         /\ EB[h].amount = Some(0)
         /\ Cardinality(SubtreeOf(h)) >= 2
         /\ \E c \in DOMAIN calls : calls[c].ouId = h

C6_InheritOnlyWithoutEntry ==
    Resolved =>
        \A id \in OuIds :
            /\ ~IsSome(EntryOf(id)) => EB[id] = Inherited(EB, id)
            /\ HasNullEntry(id) =>
                   EB[id] = [amount |-> None, currency |-> "NONE", thresholds |-> None]
            /\ HasAmountEntry(id) =>
                   EB[id] = [amount |-> EntryOf(id)[1].amount,
                             currency |-> OrElse(EntryOf(id)[1].currency,
                                                 config.default.currency),
                             thresholds |-> IF IsSome(EntryOf(id)[1].thresholds)
                                            THEN EntryOf(id)[1].thresholds
                                            ELSE config.default.thresholds]

(***************************************************************************)
(* C7: an OU whose own entry has a positive amount resolves to exactly     *)
(* that amount, with the entry's currency and thresholds where the entry   *)
(* has them and config.default's otherwise, whatever its ancestors have.   *)
(***************************************************************************)
C7_ExplicitOverride ==
    Resolved =>
        \A id \in OuIds :
            (HasAmountEntry(id) /\ EntryOf(id)[1].amount[1] > 0) =>
                /\ EB[id].amount = EntryOf(id)[1].amount
                /\ EB[id].currency =
                       (IF EntryOf(id)[1].currency # None
                        THEN EntryOf(id)[1].currency[1] ELSE config.default.currency)
                /\ EB[id].thresholds =
                       (IF EntryOf(id)[1].thresholds # None
                        THEN EntryOf(id)[1].thresholds ELSE config.default.thresholds)

C7_Witness ==
    /\ Resolved
    /\ \E id \in OuIds :
         /\ HasAmountEntry(id)
         /\ EntryOf(id)[1].currency = Some("EUR")
         /\ ParentOf(id) # None
         /\ HasAmountEntry(ParentOf(id)[1])
         /\ EB[ParentOf(id)[1]].amount = Some(2)
    /\ \E id \in OuIds :
         /\ HasAmountEntry(id) /\ EntryOf(id)[1].amount[1] > 0
         /\ EntryOf(id)[1].thresholds = None
         /\ config.default.thresholds # None

Replanned == pc = "replanned"
EB2 == replan.out.effectiveBudgets
Attachments2 == replan.out.attachments

\* the OUs of the subtrees of the siblings of x
SiblingSubtrees(x) ==
    UNION { SubtreeOf(sib) : sib \in {o \in OuIds : o # x /\ ParentOf(o) = ParentOf(x)} }

\* the budgets of the attachments that govern OU d
Governing(att, d) == {BudgetOf(att[i]) : i \in Covering(att, d)}

SameGoverning(G1, G2) ==
    /\ \A b1 \in G1 : \E b2 \in G2 : SameBudget(b1, b2)
    /\ \A b2 \in G2 : \E b1 \in G1 : SameBudget(b1, b2)

(***************************************************************************)
(* C9 (as stated): after disabling X, the same attachments are placed at   *)
(* the OUs of every sibling subtree of X as before, and every OU of a      *)
(* sibling subtree is governed by the same budget.                         *)
(***************************************************************************)
C9_SiblingAttachmentsIdentical ==
    Replanned =>
        /\ replan.out.err = ""
        /\ \A d \in SiblingSubtrees(replan.x) :
             /\ {a \in Range(attachments) : a.ouId = d}
                    = {a \in Range(Attachments2) : a.ouId = d}
             /\ SameGoverning(Governing(attachments, d), Governing(Attachments2, d))

(***************************************************************************)
(* C9 (amended): after disabling X, every OU of a sibling subtree of X is  *)
(* governed by the same budget as before (by one attachment with an equal  *)
(* amount, currency and thresholds, or by none); the attachment itself may *)
(* move between an ancestor and the OUs of the sibling subtree.            *)
(***************************************************************************)
C9_SiblingGoverningBudgetSame ==
    Replanned =>
        /\ replan.out.err = ""
        /\ \A d \in SiblingSubtrees(replan.x) :
             /\ Cardinality(Covering(attachments, d)) <= 1
             /\ Cardinality(Covering(Attachments2, d))
                    = Cardinality(Covering(attachments, d))
             /\ SameGoverning(Governing(attachments, d), Governing(Attachments2, d))

C9_Witness ==
    /\ Replanned
    /\ \E d \in SiblingSubtrees(replan.x) :
         /\ \E i \in Covering(attachments, d) : attachments[i].ouId \notin SiblingSubtrees(replan.x)
         /\ \E i \in Covering(Attachments2, d) : Attachments2[i].ouId = d

(***************************************************************************)
(* C10: disabling X leaves the effective budget of every OU outside the    *)
(* subtree of X as it was; an OU whose budget changes is X or a descendant *)
(* of X with no overriding entry on the path from X down to it.            *)
(***************************************************************************)
\* id takes the inherit branch: no entry, or an entry that is neither null nor non-zero
Inherits(id) == ~HasNullEntry(id) /\ ~(HasAmountEntry(id) /\ EntryOf(id)[1].amount[1] # 0)

C10_DisableIsLocal ==
    Replanned =>
        /\ replan.out.err = ""
        /\ DOMAIN EB2 = DOMAIN EB
        /\ \A id \in OuIds \ SubtreeOf(replan.x) : EB2[id] = EB[id]
        /\ \A id \in OuIds :
             EB2[id] # EB[id] =>
                 /\ id \in SubtreeOf(replan.x)
                 /\ \A y \in AncestorsOrSelf(id) :
                      (y \in SubtreeOf(replan.x) /\ y # replan.x) => Inherits(y)

C10_Witness ==
    /\ Replanned
    /\ EB2[replan.x] # EB[replan.x]
    /\ \E id \in SubtreeOf(replan.x) : id # replan.x /\ EB2[id] # EB[id]
    /\ \E id \in SubtreeOf(replan.x) : id # replan.x /\ EB2[id] = EB[id]
    /\ SiblingSubtrees(replan.x) # {}

(***************************************************************************)
(* Vocabulary of the classifier's properties                               *)
(***************************************************************************)
\* maximalUniformSubtreeRoots has returned
Classified == pc \in {"classified", "done", "replanned"}
StatusOf(id) == status.status[id]

\* same amount and currency, different thresholds (a missing list reads as the
\* empty list, as in equalBudgets)
DifferOnlyInThresholds(a, b) ==
    /\ a.amount = b.amount
    /\ a.currency = b.currency
    /\ OrElse(a.thresholds, <<>>) # OrElse(b.thresholds, <<>>)

\* the OUs at which the list att has an attachment
AttachedOus(att) == {att[i].ouId : i \in DOMAIN att}

(***************************************************************************)
(* C11 (as stated): no attachment has two OUs in its subtree whose budgets *)
(* differ only in thresholds; when a parent and a child have the same      *)
(* positive amount and currency but different thresholds, the parent is    *)
(* mixed and the parent and the child are each governed by an attachment   *)
(* of their own that carries their own thresholds.                         *)
(***************************************************************************)
C11_EachSideAttached ==
    Planned =>
        /\ \A i \in DOMAIN attachments :
             \A d1, d2 \in SubtreeOf(attachments[i].ouId) :
                 ~DifferOnlyInThresholds(EB[d1], EB[d2])
        /\ \A c \in OuIds :
             (/\ ParentOf(c) # None
              /\ Positive(EB[c])
              /\ DifferOnlyInThresholds(EB[ParentOf(c)[1]], EB[c])) =>
                 /\ StatusOf(ParentOf(c)[1]) = MIXED
                 /\ \A side \in {c, ParentOf(c)[1]} :
                      \E i \in Covering(attachments, side) :
                          SameBudget(BudgetOf(attachments[i]), EB[side])

(***************************************************************************)
(* C11 (amended): no attachment has two OUs in its subtree whose budgets   *)
(* differ only in thresholds; when a parent and a child differ only in     *)
(* thresholds the parent is mixed and has no attachment at itself or above *)
(* it, every attachment that governs the child carries the child's own     *)
(* thresholds, and the child has exactly one such attachment when its      *)
(* budget is positive and shared by its whole subtree. In the repository's *)
(* thresholds test the attachments are ou-b with the default thresholds    *)
(* and ou-c with [50, 90].                                                 *)
(***************************************************************************)
C11_ThresholdsDiscriminate ==
    Planned =>
        /\ \A i \in DOMAIN attachments :
             \A d1, d2 \in SubtreeOf(attachments[i].ouId) :
                 ~DifferOnlyInThresholds(EB[d1], EB[d2])
        /\ \A c \in OuIds :
             (ParentOf(c) # None /\ DifferOnlyInThresholds(EB[ParentOf(c)[1]], EB[c])) =>
                 /\ StatusOf(ParentOf(c)[1]) = MIXED
                 /\ Covering(attachments, ParentOf(c)[1]) = {}
                 /\ \A i \in Covering(attachments, c) :
                      SameBudget(BudgetOf(attachments[i]), EB[c])
                 /\ (Positive(EB[c]) /\ SubtreeUniform(EB, c)) =>
                        Cardinality(Covering(attachments, c)) = 1
        /\ (ous = thresholdsTestOus /\ config = thresholdsTestConfig) =>
               attachments =
                   << OuBudgetAttachment("ou-b", 100, "EUR", Some(DEFAULT_THRESHOLDS)),
                      OuBudgetAttachment("ou-c", 100, "EUR", Some(<<50, 90>>)) >>

C11_Witness ==
    /\ Planned
    /\ ous = thresholdsTestOus
    /\ config = thresholdsTestConfig
    /\ DifferOnlyInThresholds(EB["ou-a"], EB["ou-b"])
    /\ Len(EB["ou-a"].thresholds[1]) = Len(EB["ou-b"].thresholds[1])

(***************************************************************************)
(* C12: the attachment OUs form a set of the fewest elements among the     *)
(* sets S of OUs in which every member's subtree shares one positive       *)
(* budget and which hold, for every OU whose subtree is uniform with a     *)
(* positive budget, that OU or one of its ancestors; every attachment OU   *)
(* is the root or has a parent whose subtree is not uniform. In the        *)
(* repository's targets test the only attachment OU is prod.               *)
(***************************************************************************)
PositiveUniform(id) == Positive(EB[id]) /\ SubtreeUniform(EB, id)

CoversUniformRegions(S) ==
    /\ \A m \in S : PositiveUniform(m)
    /\ \A id \in OuIds : PositiveUniform(id) => S \cap AncestorsOrSelf(id) # {}

C12_Minimality ==
    Planned =>
        /\ Cardinality(AttachedOus(attachments)) = Len(attachments)
        /\ CoversUniformRegions(AttachedOus(attachments))
        /\ \A S \in SUBSET OuIds :
             CoversUniformRegions(S) => Cardinality(S) >= Len(attachments)
        /\ \A a \in AttachedOus(attachments) :
             ParentOf(a) = None \/ ~SubtreeUniform(EB, ParentOf(a)[1])
        /\ (ous = targetsTestOus /\ config = targetsTestConfig) =>
               AttachedOus(attachments) = {"prod"}

C12_Witness ==
    /\ Planned
    /\ \E a \in AttachedOus(attachments) :
         Cardinality(SubtreeOf(a)) >= 2 /\ ParentOf(a) # None
    /\ \E S \in SUBSET OuIds :
         CoversUniformRegions(S) /\ Cardinality(S) > Len(attachments)

(***************************************************************************)
(* Vocabulary of buildOuTree's properties, over any input list             *)
(***************************************************************************)
\* buildOuTree has returned or thrown
Built == pc # "start"
\* buildOuTree has returned
TreeReturned == pc # "start" /\ err # "structural"

\* the positions of the entries that have an id
WithId == {i \in DOMAIN ous : ous[i].id # ""}
\* the positions of the entries that have an id and no parent
RootEntries == {i \in WithId : ous[i].parentId = None}

Max(S) == CHOOSE x \in S : \A y \in S : y <= x

\* the ids of the entries at the positions P, in input order
IdsAt(P) ==
    LET sel == SelectSeq([i \in DOMAIN ous |-> i], LAMBDA i : i \in P)
    IN [k \in DOMAIN sel |-> ous[sel[k]].id]

(***************************************************************************)
(* C13: buildOuTree throws the structural error exactly when the number of *)
(* entries that have an id and parentId null is not 1 (none at all, the    *)
(* empty list, two or more); when it returns, roots has one element.       *)
(***************************************************************************)
C13_StructuralErrorIffNotOneRoot ==
    Built =>
        /\ (err = "structural") <=> (Cardinality(RootEntries) # 1)
        /\ TreeReturned => Len(tree.roots) = 1
        /\ ous = <<>> => err = "structural"

C13_Witness ==
    /\ Built
    /\ err = "structural"
    /\ Cardinality({i \in DOMAIN ous : ous[i].parentId = None}) = 3
    /\ Cardinality(RootEntries) = 2

(***************************************************************************)
(* C15: the tree buildOuTree returns has in byId exactly the non-empty ids *)
(* of the list, each with its last entry; in children, for every parent id *)
(* named by an entry that has an id, the ids of those entries in input     *)
(* order, and no other key; in roots the ids of the entries with an id and *)
(* no parent; the empty id is in none of them.                             *)
(***************************************************************************)
C15_ReferenceConstruction ==
    TreeReturned =>
        /\ DOMAIN tree.byId = {ous[i].id : i \in WithId}
        /\ \A id \in DOMAIN tree.byId :
             tree.byId[id] = ous[Max({i \in WithId : ous[i].id = id})]
        /\ DOMAIN tree.children = {ous[i].parentId[1] : i \in WithId \ RootEntries}
        /\ \A p \in DOMAIN tree.children :
             tree.children[p] = IdsAt({i \in WithId : ous[i].parentId = Some(p)})
        /\ tree.roots = IdsAt(RootEntries)
        /\ "" \notin DOMAIN tree.byId
        /\ "" \notin Range(tree.roots)
        /\ \A p \in DOMAIN tree.children : "" \notin Range(tree.children[p])

C15_Witness ==
    /\ TreeReturned
    /\ \E i, j \in WithId : i < j /\ ous[i].id = ous[j].id /\ ous[i] # ous[j]
    /\ \E i \in DOMAIN ous : ous[i].id = "" /\ ous[i].parentId # None
    /\ \E p \in DOMAIN tree.children : Len(tree.children[p]) >= 2

(***************************************************************************)
(* Vocabulary of validateBudgetConfig's properties                         *)
(***************************************************************************)
\* validateBudgetConfig has returned or thrown
Validated == pc \notin {"start", "built"} /\ err # "structural"

ConfigKeys ==
    IF IsSome(config.organizationalUnits)
    THEN Range(config.organizationalUnits[1].keys) ELSE {}
KeyEntry(k) == config.organizationalUnits[1].entry[k]

\* what is wrong with key k, "" if nothing is
KeyDefect(k) ==
    IF ~KeyEntry(k).defined THEN "undefined-entry"
    ELSE IF k \notin OuIds THEN "unknown-ou"
    ELSE IF KeyEntry(k).amount # None /\ KeyEntry(k).amount[1] < 0 THEN "invalid-amount"
    ELSE ""

(***************************************************************************)
(* C14: validateBudgetConfig returns exactly when every key of             *)
(* config.organizationalUnits has a defined entry, names a known OU and    *)
(* has an amount that is null or >= 0; otherwise it throws the error of a  *)
(* key that lacks one of these (undefined entry, unknown OU, negative      *)
(* amount, in that order for one key); a null amount is never the reason.  *)
(***************************************************************************)
C14_ValidationExact ==
    Validated =>
        /\ (err = "") <=> (\A k \in ConfigKeys : KeyDefect(k) = "")
        /\ err # "" => \E k \in ConfigKeys : err = KeyDefect(k)
        /\ (\A k \in ConfigKeys :
                KeyEntry(k).defined /\ k \in OuIds /\ KeyEntry(k).amount = None) => err = ""

C14_Witness ==
    /\ Validated
    /\ err = "invalid-amount"
    /\ \E k \in ConfigKeys : KeyDefect(k) = "unknown-ou" /\ KeyEntry(k).amount = None

(***************************************************************************)
(* C16: a negative amount in an entry of config.organizationalUnits or in  *)
(* config.default makes planning fail, and no effective budget that        *)
(* computeEffectiveBudgets returns has a negative amount.                  *)
(***************************************************************************)
HasNegativeAmount ==
    \/ config.default.amount # None /\ config.default.amount[1] < 0
    \/ \E k \in ConfigKeys :
          KeyEntry(k).defined /\ KeyEntry(k).amount # None /\ KeyEntry(k).amount[1] < 0

C16_NegativeAmountFails ==
    /\ (Validated /\ HasNegativeAmount) => pc = "failed"
    /\ Resolved => \A id \in OuIds : EB[id].amount = None \/ EB[id].amount[1] >= 0

(***************************************************************************)
(* C19: after classification on a well-formed tree the status of a node is *)
(* uniform, with the node's own budget as value, exactly when every OU of  *)
(* its subtree has a budget that equalBudgets holds equal to the node's    *)
(* own, and mixed otherwise; a node without children is uniform.           *)
(***************************************************************************)
EqualInSubtree(id) ==
    \A d \in SubtreeOf(id) : equalBudgets(Some(EB[d]), Some(EB[id]))

C19_UniformStatusExact ==
    Classified =>
        /\ DOMAIN status.status = OuIds
        /\ \A id \in OuIds :
             /\ EqualInSubtree(id) => StatusOf(id) = UniformStatus(Some(EB[id]))
             /\ ~EqualInSubtree(id) => StatusOf(id) = MIXED
             /\ SubtreeOf(id) = {id} => isUniform(StatusOf(id))

C19_Witness ==
    /\ Classified
    /\ \E id \in OuIds :
         /\ StatusOf(id) = MIXED
         /\ ParentOf(id) = None
         /\ \A c \in OuIds : ParentOf(c) = Some(id) => equalBudgets(Some(EB[c]), Some(EB[id]))

(***************************************************************************)
(* C20: maximalUniformSubtreeRoots returns, each once, exactly the OUs     *)
(* whose status is uniform and that are the root, or have a mixed parent,  *)
(* or have a uniform parent with a different value; a uniform node whose   *)
(* parent is uniform with an equal value is not returned. On the tree      *)
(* A -> {B -> {D, E}, C} with budgets A = B = D = 100, C = 200, E = 300    *)
(* the result is {C, D, E}.                                                *)
(***************************************************************************)
StartsRegion(id) ==
    /\ isUniform(StatusOf(id))
    /\ \/ ParentOf(id) = None
       \/ ~isUniform(StatusOf(ParentOf(id)[1]))
       \/ ~equalBudgets(StatusOf(ParentOf(id)[1]).value, StatusOf(id).value)

C20_MaximalRootsExact ==
    Classified =>
        /\ Range(homogeneous) = {id \in OuIds : StartsRegion(id)}
        /\ Cardinality(Range(homogeneous)) = Len(homogeneous)
        /\ \A id \in OuIds :
             (/\ isUniform(StatusOf(id))
              /\ ParentOf(id) # None
              /\ isUniform(StatusOf(ParentOf(id)[1]))
              /\ equalBudgets(StatusOf(ParentOf(id)[1]).value, StatusOf(id).value)) =>
                 id \notin Range(homogeneous)
        /\ ous = simpleValidOus =>
               Range(maximalUniformSubtreeRoots(tree, homogeneousTestBudgets).roots)
                   = {"C", "D", "E"}

C20_Witness ==
    /\ Classified
    /\ \E id \in OuIds : isUniform(StatusOf(id)) /\ id \notin Range(homogeneous)
    /\ \E id \in Range(homogeneous) : ParentOf(id) # None

(***************************************************************************)
(* Vocabulary of the properties of interleaved invocations                 *)
(***************************************************************************)
Returned(k) == invocation[k].pc \in {"done", "failed"}
SameArguments(j, k) ==
    invocation[j].ous = invocation[k].ous /\ invocation[j].config = invocation[k].config
\* what the invocation returns when it runs alone
Alone(k) == computeOuBudgetAttachments(invocation[k].ous, invocation[k].config)

C18_InterleavingIndependent ==
    \A k \in Callers :
        /\ invocation[k].pc = "done" =>
               Alone(k).err = "" /\ invocation[k].attachments = Alone(k).attachments
        /\ invocation[k].pc = "failed" => invocation[k].err = Alone(k).err

C18_Witness ==
    /\ invocation[1].pc = "done"
    /\ invocation[2].pc = "classified"
    /\ invocation[1].ous # invocation[2].ous
    /\ invocation[1].config # invocation[2].config
    /\ invocation[1].attachments # <<>>
    /\ frame[1].homogeneous # frame[2].homogeneous

(***************************************************************************)
(* Vocabulary of the properties of a planning run on any list              *)
(***************************************************************************)
\* the ids that tree.children lists under id
ChildrenOf(id) == Range(getChildren(tree, id))

RECURSIVE ReachableFrom(_, _)
\* the ids reachable from the ids S along tree.children, within n steps
ReachableFrom(S, n) ==
    IF n = 0 THEN S
    ELSE ReachableFrom(S \cup UNION {ChildrenOf(x) : x \in S}, n - 1)

\* the ids below id in the children relation
DescendantsOf(id) == ReachableFrom(ChildrenOf(id), Cardinality(DOMAIN tree.byId))
\* the children relation leads from id back to id
OnCycle(id) == id \in DescendantsOf(id)
ChildrenCycle == \E id \in DOMAIN tree.byId : OnCycle(id)

\* maximalUniformSubtreeRoots has been called and has returned or thrown
StatusRan ==
    \/ pc \in {"classified", "done"}
    \/ pc = "failed" /\ (err = "cycle" \/ calls # <<>>)
\* maximalUniformSubtreeRoots has returned
StatusReturned == StatusRan /\ err # "cycle"

\* every OU of the tree has the same effective budget
OneBudget ==
    \A a, b \in DOMAIN tree.byId : equalBudgets(MapGet(EB, a), MapGet(EB, b))

(***************************************************************************)
(* C21 as stated: whenever the children relation that                      *)
(* maximalUniformSubtreeRoots is given contains a cycle, the function      *)
(* raises the cycle error and returns no result.                           *)
(***************************************************************************)
C21_CycleAlwaysRaises ==
    (StatusRan /\ ChildrenCycle) => err = "cycle"

(***************************************************************************)
(* C21 amended: the cycle error is raised only when the children relation  *)
(* contains a cycle, and it is raised whenever it does and no budget       *)
(* differs from another (so that no node returns MIXED before all its      *)
(* children were visited); when the function returns although there is a   *)
(* cycle, every classified node on a cycle is MIXED: the early MIXED       *)
(* return kept the computation from re-entering the node.                  *)
(***************************************************************************)
C21_CycleGuard ==
    StatusRan =>
        /\ err = "cycle" => ChildrenCycle
        /\ (ChildrenCycle /\ OneBudget) => err = "cycle"
        /\ StatusReturned =>
              /\ DOMAIN status.status = DOMAIN tree.byId
              /\ \A id \in DOMAIN tree.byId : OnCycle(id) => status.status[id] = MIXED

\* the guard fires on a cycle through two OUs
C21_Witness ==
    /\ pc = "failed" /\ err = "cycle"
    /\ \E a, b \in DOMAIN tree.byId :
         a # b /\ a \in ChildrenOf(b) /\ b \in ChildrenOf(a)

(***************************************************************************)
(* C22: for every OuTree that buildOuTree returns,                         *)
(* maximalUniformSubtreeRoots never raises the cycle error.                *)
(***************************************************************************)
C22_CycleGuardUnreachable ==
    TreeReturned => err # "cycle"

(***************************************************************************)
(* C23: on a well-formed tree the body of resolve behind the cache lookup  *)
(* runs exactly once for each OU id, whatever the order of the ids in      *)
(* byId, and an OU that takes the inherit branch holds the effective       *)
(* budget that its parent holds.                                           *)
(***************************************************************************)
C23_ResolvedOncePerOu ==
    Resolved =>
        /\ \A i, j \in DOMAIN memo.log : memo.log[i] = memo.log[j] => i = j
        /\ Range(memo.log) = OuIds
        /\ DOMAIN EB = OuIds
        /\ \A id \in OuIds :
             (Inherits(id) /\ ParentOf(id) # None) => EB[id] = EB[ParentOf(id)[1]]

\* two inheriting children ask for their parent before the loop reaches it
C23_Witness ==
    /\ Resolved
    /\ IsSome(config.organizationalUnits)
    /\ memo.log # tree.keys
    /\ \E c1, c2 \in OuIds :
         /\ c1 # c2
         /\ ParentOf(c1) # None /\ ParentOf(c1) = ParentOf(c2)
         /\ Inherits(c1) /\ Inherits(c2)
         /\ memo.log[1] = c1

(***************************************************************************)
(* Vocabulary of attachment order                                          *)
(***************************************************************************)
\* the ids of the entries of list whose parent is id, in input order
ChildIdsIn(list, id) ==
    LET kids == SelectSeq(list, LAMBDA n : n.parentId = Some(id))
    IN [k \in DOMAIN kids |-> kids[k].id]

RECURSIVE PreOrderFrom(_, _)
RECURSIVE PreOrderOfAll(_, _, _)
\* depth-first pre-order of the subtree of id, siblings in input order
PreOrderFrom(list, id) == <<id>> \o PreOrderOfAll(list, ChildIdsIn(list, id), 1)
PreOrderOfAll(list, ids, i) ==
    IF i > Len(ids) THEN <<>>
    ELSE PreOrderFrom(list, ids[i]) \o PreOrderOfAll(list, ids, i + 1)

PreOrder(list) ==
    LET r == CHOOSE k \in DOMAIN list : list[k].parentId = None
    IN PreOrderFrom(list, list[r].id)

PositionIn(seq, x) == CHOOSE k \in DOMAIN seq : seq[k] = x

\* the attachments of att appear in the order in which PreOrder(list) has their OUs
InPreOrder(list, att) ==
    \A i, j \in DOMAIN att :
        i < j => PositionIn(PreOrder(list), att[i].ouId)
                    < PositionIn(PreOrder(list), att[j].ouId)

\* the positions of two sibling entries of the input list
SiblingEntries ==
    {p \in (DOMAIN ous) \X (DOMAIN ous) :
        p[1] < p[2] /\ ous[p[1]].parentId = ous[p[2]].parentId}

\* the list with the entries at positions i and j exchanged
Exchanged(list, i, j) ==
    [k \in DOMAIN list |-> IF k = i THEN list[j] ELSE IF k = j THEN list[i] ELSE list[k]]

(***************************************************************************)
(* C24: the attachment list is in depth-first pre-order from the root      *)
(* with siblings in input order (root -> env -> {dev, prod}: dev before    *)
(* prod); planning the list with two sibling entries exchanged returns the *)
(* same attachments, as a set and in number, in the pre-order of the       *)
(* exchanged list.                                                         *)
(***************************************************************************)
C24_AttachmentOrder ==
    pc = "done" =>
        /\ InPreOrder(ous, attachments)
        /\ \A p \in SiblingEntries :
             LET other == Exchanged(ous, p[1], p[2])
                 out == computeOuBudgetAttachments(other, config)
             IN /\ out.err = ""
                /\ Range(out.attachments) = Range(attachments)
                /\ Len(out.attachments) = Len(attachments)
                /\ InPreOrder(other, out.attachments)
        /\ ous = siblingsTestOus =>
              [i \in DOMAIN attachments |-> attachments[i].ouId] = <<"dev", "prod">>

\* the test's tree, where exchanging dev and prod reverses the list
C24_Witness ==
    /\ pc = "done"
    /\ ous = siblingsTestOus
    /\ Len(attachments) = 2
    /\ LET out == computeOuBudgetAttachments(Exchanged(ous, 3, 4), config)
       IN /\ out.attachments # attachments
          /\ out.attachments = <<attachments[2], attachments[1]>>

(***************************************************************************)
(* C25: for every list that buildOuTree accepts and every config that      *)
(* passes validation, the recursion of computeOuBudgetAttachments is       *)
(* bounded: no call of resolve or of traverse is entered again for an OU   *)
(* whose call is still on the stack. Such a call finds everything it reads *)
(* unchanged and repeats without end; the runtime ends it with the         *)
(* RangeError of an exhausted call stack.                                  *)
(***************************************************************************)
C25_RecursionBounded ==
    TreeReturned => err # "range-error"

(***************************************************************************)
(* C26: for every list that buildOuTree accepts, lists that repeat an id   *)
(* (possibly under different parents) included, the attachment list never  *)
(* holds two attachments with the same ouId.                               *)
(***************************************************************************)
C26_OneAttachmentPerOu ==
    pc = "done" =>
        \A i, j \in DOMAIN attachments :
            attachments[i].ouId = attachments[j].ouId => i = j

(***************************************************************************)
(* C27: every error that computeOuBudgetAttachments raises is one of five  *)
(* kinds: structural, unknown OU in the config, undefined entry, invalid   *)
(* amount, cycle. In particular a list in which some parentId names no OU  *)
(* of the list is rejected with one of the five or planned without error.  *)
(***************************************************************************)
ErrorTaxonomy == {"structural", "unknown-ou", "undefined-entry", "invalid-amount", "cycle"}

C27_ClosedErrorTaxonomy ==
    pc = "failed" => err \in ErrorTaxonomy

(***************************************************************************)
(* C28: on a well-formed tree uniform status is downward-closed (every OU  *)
(* below a uniform OU is uniform with an equal value); every id that       *)
(* maximalUniformSubtreeRoots returns is the root or has a mixed parent,   *)
(* so the case of a uniform parent with a different value never occurs; no *)
(* returned id is an ancestor of another; and every uniform OU lies in the *)
(* subtree of exactly one returned id.                                     *)
(***************************************************************************)
C28_UniformDownwardClosed ==
    Classified =>
        /\ \A id \in OuIds : isUniform(StatusOf(id)) =>
              \A d \in SubtreeOf(id) :
                  /\ isUniform(StatusOf(d))
                  /\ equalBudgets(StatusOf(d).value, StatusOf(id).value)
        /\ \A id \in Range(homogeneous) :
              \/ ParentOf(id) = None
              \/ StatusOf(ParentOf(id)[1]) = MIXED
        /\ \A a, b \in Range(homogeneous) : a # b => a \notin AncestorsOrSelf(b)
        /\ \A id \in OuIds : isUniform(StatusOf(id)) =>
              Cardinality(Range(homogeneous) \cap AncestorsOrSelf(id)) = 1

\* a returned OU under a mixed parent, with a uniform OU below it
C28_Witness ==
    /\ Classified
    /\ \E id \in Range(homogeneous) :
         /\ ParentOf(id) # None
         /\ StatusOf(ParentOf(id)[1]) = MIXED
         /\ \E d \in SubtreeOf(id) : d # id /\ isUniform(StatusOf(d))

(***************************************************************************)
(* C29: ancestorSelected is false at every call of traverse that is        *)
(* reachable from traverse(root, false), and the flag never changes the    *)
(* outcome: every OU that maximalUniformSubtreeRoots returned and that has *)
(* a positive budget is visited and attached, none is held back by         *)
(* !ancestorSelected.                                                      *)
(***************************************************************************)
C29_AncestorSelectedAlwaysFalse ==
    pc = "done" =>
        /\ calls # <<>>
        /\ calls[1] = [ouId |-> tree.roots[1], ancestorSelected |-> FALSE]
        /\ \A i \in DOMAIN calls : ~calls[i].ancestorSelected
        /\ Range(homogeneous) \subseteq {calls[i].ouId : i \in DOMAIN calls}
        /\ AttachedOus(attachments) = {id \in Range(homogeneous) : Positive(EB[id])}

\* traverse was called for a grandchild of the root
C29_Witness ==
    /\ pc = "done"
    /\ \E i \in DOMAIN calls :
         /\ ParentOf(calls[i].ouId) # None
         /\ ParentOf(ParentOf(calls[i].ouId)[1]) # None
    /\ attachments # <<>>

(***************************************************************************)
(* Vocabulary of the forward-sns-message handler's properties              *)
(***************************************************************************)
Invoked == handlerResult # NotInvoked
\* the calls snsClient.send received for record i
CallsFor(i) == {c \in DOMAIN snsCalls : snsCalls[c].record = i}
\* the callback sends for this record
Sendable(i) == event.Records[i].body \in {"Notification", "SubscriptionConfirmation"}
RejectedRecords == {i \in DOMAIN promises : promises[i].state = "rejected"}

====
